---------------------------- MODULE Spec2Model ----------------------------
(***************************************************************************)
(* A model of the PSX scraping pipeline: the value normalizers             *)
(* (stock_scrapper.clean_value, stock_scapper.extract_numeric), the table  *)
(* extractors, and the two scrape entry points                             *)
(* (stock_scrapper.scrape_company_data, stock_scapper.scrape_stock_data).  *)
(*                                                                         *)
(* Text is a sequence of one-character strings.  A Python float is kept as *)
(* the exact decimal m * 10^e (binary rounding is not modelled).           *)
(***************************************************************************)
EXTENDS Integers, Sequences, FiniteSets, TLC

VARIABLES
    raw,        \* normalizer run: the text handed to the normalizers
    cv,         \* normalizer run: what clean_value(raw) gave
    en,         \* normalizer run: what extract_numeric(raw) gave
    tbl,        \* table run: the statement section handed to the extractor
    stmt,       \* table run: what the statement extraction gave
    ptbl,       \* table run: the payout fragment handed to the extractor
    pres,       \* table run: what the payout extraction gave
    company_soup, \* snapshot run: the company page handed to scrape_company_snapshot
    snapshot_data, \* snapshot run: what scrape_company_snapshot(soup) gave
    symbol,     \* scrape run: the symbol handed to scrape_company_data
    web,        \* scrape run: what each of the three endpoints answers
    pc,         \* scrape run: where scrape_company_data is
    tabIdx,     \* scrape run: the tab scrape_financial_data's loop is at
    requests,   \* scrape run: the HTTP requests issued so far, in order
    files,      \* scrape run: the content of each file of financial_data/
    log,        \* scrape run: the warnings and errors logged so far
    outcome,    \* scrape run: "running", then "returned" or "raised"
    prior,      \* scrape run: which run this is, and the files the run before left
    session,    \* dashboard: st.session_state and where the download button is
    stock,      \* stock run: the state of one call of scrape_stock_data
    analyzer    \* analyzer run: a CompanyAnalyzer and the reports it returned

normVars == <<raw, cv, en>>

tableVars == <<tbl, stmt, ptbl, pres>>

snapVars == <<company_soup, snapshot_data>>

scrapeVars == <<symbol, web, pc, tabIdx, requests, files, log, outcome, prior, session>>

vars == <<raw, cv, en, tbl, stmt, ptbl, pres, company_soup, snapshot_data,
          symbol, web, pc, tabIdx, requests, files, log, outcome, prior, session, stock, analyzer>>

-----------------------------------------------------------------------------
(* Bounds and alphabets *)

MaxLen == 3

\* table run: cells per row and data rows per table
MaxCells == 2
MaxRows == 2

\* stock run: characters of a symbol
MaxSymLen == 2

\* the <strong> elements of a snapshot panel
MaxStrongs == 2

\* dashboard: clicks on the download button
MaxClicks == 2

\* analyzer run: calls of generate_report on one analyzer
MaxCalls == 2

Digits == {"0", "1"}

\* characters of scraped cell text: digits, point, sign, the three scale
\* letters, a lower-case letter, blank, and the two characters clean_value strips
Chars == Digits \cup {".", "-", "K", "M", "B", "k", " ", "%", ","}

RECURSIVE StringsUpTo(_, _)
StringsUpTo(A, n) ==
    IF n = 0 THEN {<<>>}
    ELSE LET shorter == StringsUpTo(A, n - 1)
         IN  shorter \cup {Append(s, c) : s \in shorter, c \in A}

Texts == StringsUpTo(Chars, MaxLen)

-----------------------------------------------------------------------------
(* Python values the normalizers return or raise *)

Pending     == [kind |-> "pending", m |-> 0, e |-> 0, text |-> <<>>]
NoneVal     == [kind |-> "none",    m |-> 0, e |-> 0, text |-> <<>>]
ValueError  == [kind |-> "raise",   m |-> 0, e |-> 0, text |-> <<>>]
StrVal(s)   == [kind |-> "str",     m |-> 0, e |-> 0, text |-> s]

\* the number m * 10^e, with the trailing zeros of m moved into e so that equal
\* numbers are equal records
RECURSIVE NumVal(_, _)
NumVal(m, e) ==
    IF m = 0 THEN [kind |-> "num", m |-> 0, e |-> 0, text |-> <<>>]
    ELSE IF m % 10 = 0 THEN NumVal(m \div 10, e + 1)
    ELSE [kind |-> "num", m |-> m, e |-> e, text |-> <<>>]

\* v * 10^p
Times10(v, p) == NumVal(v.m, v.e + p)

-----------------------------------------------------------------------------
(* str methods *)

Contains(s, c) == \E i \in DOMAIN s : s[i] = c

Remove(s, c) == SelectSeq(s, LAMBDA x : x # c)

RECURSIVE LStrip(_)
LStrip(s) == IF s # <<>> /\ Head(s) = " " THEN LStrip(Tail(s)) ELSE s

RECURSIVE RStrip(_)
RStrip(s) ==
    IF s # <<>> /\ s[Len(s)] = " " THEN RStrip(SubSeq(s, 1, Len(s) - 1)) ELSE s

Strip(s) == RStrip(LStrip(s))

Upper(s) == [i \in DOMAIN s |-> IF s[i] = "a" THEN "A" ELSE s[i]]

-----------------------------------------------------------------------------
(* float(text) *)

DigitVal(c) == IF c = "1" THEN 1 ELSE 0

RECURSIVE DigitsToInt(_)
DigitsToInt(s) ==
    IF s = <<>> THEN 0
    ELSE 10 * DigitsToInt(SubSeq(s, 1, Len(s) - 1)) + DigitVal(s[Len(s)])

\* float() accepts surrounding blanks, one leading sign, and digits with at most
\* one point and at least one digit; anything else is a ValueError
ParseFloat(s) ==
    LET t     == Strip(s)
        neg   == t # <<>> /\ Head(t) = "-"
        body  == IF neg THEN Tail(t) ELSE t
        ds    == SelectSeq(body, LAMBDA c : c \in Digits)
        dots  == SelectSeq(body, LAMBDA c : c = ".")
        dotAt == CHOOSE i \in DOMAIN body : body[i] = "."
        frac  == IF dots = <<>> THEN 0 ELSE Len(body) - dotAt
        mag   == DigitsToInt(ds)
    IN  IF /\ \A i \in DOMAIN body : body[i] \in Digits \cup {"."}
           /\ Len(dots) <= 1
           /\ ds # <<>>
        THEN NumVal(IF neg THEN 0 - mag ELSE mag, 0 - frac)
        ELSE ValueError

-----------------------------------------------------------------------------
(* stock_scrapper.clean_value *)

clean_value(value) ==
    LET stripped == Strip(value)
        v        == Remove(Remove(stripped, ","), "%")
        scaled(letter, p) ==
            LET f == ParseFloat(Remove(v, letter))
            IN  IF f.kind = "raise" THEN ValueError ELSE Times10(f, p)
    IN  IF stripped = <<"-">> \/ stripped = <<>> THEN NumVal(0, 0)
        ELSE IF Contains(v, "K") THEN scaled("K", 3)
        ELSE IF Contains(v, "M") THEN scaled("M", 6)
        ELSE IF Contains(v, "B") THEN scaled("B", 9)
        ELSE IF ParseFloat(v).kind = "raise" THEN StrVal(v)
        ELSE ParseFloat(v)

-----------------------------------------------------------------------------
(* stock_scapper.extract_numeric *)

RECURSIVE DigitRun(_, _)
DigitRun(s, j) ==
    IF j <= Len(s) /\ s[j] \in Digits THEN 1 + DigitRun(s, j + 1) ELSE 0

\* where a match of \d*\.?\d+ that starts at j ends (exclusive), 0 when none
BodyEnd(s, j) ==
    LET a == DigitRun(s, j)
        k == j + a
    IN  IF k <= Len(s) /\ s[k] = "." /\ DigitRun(s, k + 1) >= 1
        THEN k + 1 + DigitRun(s, k + 1)
        ELSE IF a >= 1 THEN k ELSE 0

\* where a match of -?\d*\.?\d+ that starts at i ends (exclusive), 0 when none
MatchEnd(s, i) == IF s[i] = "-" THEN BodyEnd(s, i + 1) ELSE BodyEnd(s, i)

\* re.findall(...)[0]: the leftmost match, <<>> when there is none
RECURSIVE FirstMatchFrom(_, _)
FirstMatchFrom(s, i) ==
    IF i > Len(s) THEN <<>>
    ELSE IF MatchEnd(s, i) # 0 THEN SubSeq(s, i, MatchEnd(s, i) - 1)
    ELSE FirstMatchFrom(s, i + 1)

FirstMatch(s) == FirstMatchFrom(s, 1)

extract_numeric(value) ==
    LET v == Remove(Remove(value, ","), "%")
    IN  IF value = <<>> THEN NoneVal
        ELSE IF FirstMatch(v) = <<>> THEN NoneVal
        ELSE IF ParseFloat(FirstMatch(v)).kind = "raise" THEN NoneVal
        ELSE ParseFloat(FirstMatch(v))

-----------------------------------------------------------------------------
(* Parsed HTML and extracted datasets *)

Metric    == <<"M", "e", "t", "r", "i", "c">>
PayoutPct == <<"P", "a", "y", "o", "u", "t", " ", "%">>
FaceValue == <<"F", "a", "c", "e", " ", "V", "a", "l", "u", "e">>
Year      == <<"Y", "e", "a", "r">>

\* a <td> or <th> and its text
Cell(tag, text) == [tag |-> tag, text |-> text]

\* the <div id=tab_id> of the statements fragment: whether it is there, whether
\* it holds a <table>, and the table's <tr> rows in document order
TabDoc(div, table, rows) == [div |-> div, table |-> table, rows |-> rows]

\* the payouts fragment: whether <table id=company-payouts> is there, whether it
\* has a <thead> and a <tbody>, the <th> texts and the <td> texts of each <tr>
PayoutDoc(table, thead, tbody, head, body) ==
    [table |-> table, thead |-> thead, tbody |-> tbody, head |-> head, body |-> body]

\* what an extraction gives: a DataFrame written to its file ("ok"), nothing
\* because the section ("notfound") or its table ("notable") is not there, or an
\* exception ("raise")
NotRun        == [status |-> "pending",  exc |-> "", headers |-> <<>>, rows |-> <<>>]
NotFound      == [status |-> "notfound", exc |-> "", headers |-> <<>>, rows |-> <<>>]
NoTable       == [status |-> "notable",  exc |-> "", headers |-> <<>>, rows |-> <<>>]
Raised(exc)   == [status |-> "raise",    exc |-> exc, headers |-> <<>>, rows |-> <<>>]
Frame(hs, rs) == [status |-> "ok",       exc |-> "", headers |-> hs, rows |-> rs]

Map(f(_), s) == [i \in DOMAIN s |-> f(s[i])]

-----------------------------------------------------------------------------
(* stock_scrapper.scrape_financial_data, the body of the loop over the tabs *)

CellText(c) == Strip(c.text)

\* ['Metric'] + [th.text.strip() for th in table.find('tr').find_all('th')[1:]]
StatementHeaders(tr) ==
    LET ths == SelectSeq(tr, LAMBDA c : c.tag = "th")
    IN  <<Metric>> \o Map(CellText, IF ths = <<>> THEN <<>> ELSE Tail(ths))

\* row = [cells[0].text.strip()] + [clean_value(cell.text.strip()) for the rest]
StatementRow(cells) ==
    <<StrVal(CellText(cells[1]))>>
        \o Map(LAMBDA c : clean_value(CellText(c)), Tail(cells))

RowRaises(row) == \E i \in DOMAIN row : row[i].kind = "raise"

\* rows.append(row) only when len(row) == len(headers)
AcceptRow(row, headers) == Len(row) = Len(headers)

\* the rows with every row dropped that has the label of a later row
LastOfLabel(rows) ==
    LET kept == {i \in DOMAIN rows : \A j \in DOMAIN rows : j > i => rows[j][1] # rows[i][1]}
        nth(k) == CHOOSE i \in kept : Cardinality({j \in kept : j <= i}) = k
    IN  [k \in 1..Cardinality(kept) |-> rows[nth(k)]]

\* scrape_financial_data collecting the rows in a dict keyed by the metric name
ExtractStatementByLabel(tab) ==
    IF ~tab.div THEN NotFound
    ELSE IF ~tab.table THEN NoTable
    ELSE IF tab.rows = <<>> THEN Raised("AttributeError")
    ELSE LET headers == StatementHeaders(tab.rows[1])
             trs     == SelectSeq(Tail(tab.rows), LAMBDA tr : tr # <<>>)
             cand    == Map(StatementRow, trs)
         IN  IF \E i \in DOMAIN cand : RowRaises(cand[i])
             THEN Raised("ValueError")
             ELSE Frame(headers,
                        LastOfLabel(SelectSeq(cand, LAMBDA row : AcceptRow(row, headers))))

ExtractStatement(tab) ==
    IF ~tab.div THEN NotFound
    ELSE IF ~tab.table THEN NoTable
    ELSE IF tab.rows = <<>> THEN Raised("AttributeError")
    ELSE LET headers == StatementHeaders(tab.rows[1])
             trs     == SelectSeq(Tail(tab.rows), LAMBDA tr : tr # <<>>)
             cand    == Map(StatementRow, trs)
         IN  IF \E i \in DOMAIN cand : RowRaises(cand[i])
             THEN Raised("ValueError")
             ELSE Frame(headers,
                        SelectSeq(cand, LAMBDA row : AcceptRow(row, headers)))

-----------------------------------------------------------------------------
(* stock_scrapper.scrape_payout_data, after the fetch *)

NumericColumns == {PayoutPct, FaceValue}

Max(S) == CHOOSE x \in S : \A y \in S : y <= x

\* pd.DataFrame(rows, columns=headers) pads the short rows with None up to the
\* longest row, and raises when that width is not the number of columns
FrameWidth(rows) == Max({Len(rows[i]) : i \in DOMAIN rows} \cup {0})

PadRow(row, n) ==
    [i \in 1..n |-> IF i <= Len(row) THEN StrVal(Strip(row[i])) ELSE NoneVal]

\* df[col] = df[col].apply(lambda x: clean_value(x) if x else 0)
ConvertCell(header, x) ==
    IF header \notin NumericColumns THEN x
    ELSE IF x = NoneVal \/ x.text = <<>> THEN NumVal(0, 0)
    ELSE clean_value(x.text)

ConvertRow(headers, row) == [i \in DOMAIN row |-> ConvertCell(headers[i], row[i])]

MakeFrame(headers, rows) ==
    IF rows # <<>> /\ FrameWidth(rows) # Len(headers) THEN Raised("ValueError")
    ELSE LET padded    == Map(LAMBDA r : PadRow(r, Len(headers)), rows)
             converted == Map(LAMBDA r : ConvertRow(headers, r), padded)
         IN  IF \E i \in DOMAIN converted : RowRaises(converted[i])
             THEN Raised("ValueError")
             ELSE Frame(headers, converted)

ExtractPayouts(doc) ==
    IF ~doc.table THEN NotFound
    ELSE IF ~doc.thead \/ ~doc.tbody THEN Raised("AttributeError")
    ELSE MakeFrame(Map(Strip, doc.head), doc.body)

-----------------------------------------------------------------------------
(* stock_scrapper.scrape_company_snapshot *)

\* a <strong title=...> of the snapshot panel: whether a <br> follows it, and
\* what follows that <br>: a text node ("text", with its text), nothing ("none")
\* or an element ("tag")
Strong(title, br, sib, text) == [title |-> title, br |-> br, sib |-> sib, text |-> text]

\* the company page: whether <div class=company_snapshot_content> is there, and
\* its <strong> elements in document order
SnapDoc(div, strongs) == [div |-> div, strongs |-> strongs]

\* the fields dict, in insertion order
fields ==
    << <<"Current Price", "Current">>, <<"Volume", "Volume">>,
       <<"Dividend", "Dividend">>, <<"Dividend Yield", "Dividend_Yield">>,
       <<"Price to Earnings Ratio", "PE_Ratio">>, <<"Earning per Share", "EPS">>,
       <<"Book Value", "Book_Value">>, <<"Price to Book", "PB_Ratio">>,
       <<"Market Cap", "Market_Cap">>, <<"Debt to Equity", "Debt_to_Equity">>,
       <<"Net Profit Margin", "Net_Profit_Margin">>,
       <<"Gross Profit Margin", "Gross_Profit_Margin">>,
       <<"Current Ratio", "Current_Ratio">>, <<"Shares", "Shares">>,
       <<"FreeFloat", "Free_Float">>, <<"Free Float %", "Free_Float_Percent">>,
       <<"Equity to Asset", "Equity_to_Asset">>, <<"Interest", "Interest_Cover">>,
       <<"Beta", "Beta">>, <<"Upper/Lower Cap", "Upper_Lower_Cap">>,
       <<"52 Week High", "52W_High">>, <<"52 Week Low", "52W_Low">>,
       <<"High", "High">>, <<"Low", "Low">> >>

\* `title in x` for the titles the panel carries (the labels of fields)
TitleIn(title, x) ==
    \/ title = x
    \/ <<title, x>> \in {<<"Dividend", "Dividend Yield">>, <<"High", "52 Week High">>,
                         <<"Low", "52 Week Low">>, <<"Low", "Upper/Lower Cap">>}

\* a lookup that takes the element whose title is the label when there is one
FindStrongExact(strongs, title) ==
    LET hits  == {i \in DOMAIN strongs : TitleIn(title, strongs[i].title)}
        exact == {i \in DOMAIN strongs : strongs[i].title = title}
        first(S) == CHOOSE i \in S : \A j \in S : i <= j
    IN  IF exact # {} THEN first(exact) ELSE IF hits = {} THEN 0 ELSE first(hits)

\* snapshot_table.find('strong', title=lambda x: x and title in x): 0 when none
FindStrong(strongs, title) ==
    LET hits == {i \in DOMAIN strongs : TitleIn(title, strongs[i].title)}
    IN  IF hits = {} THEN 0 ELSE CHOOSE i \in hits : \A j \in hits : i <= j

\* the (key, value) pairs of snapshot_data after the first n fields, or <<"raise">>
RECURSIVE SnapshotFields(_, _)
SnapshotFields(strongs, n) ==
    IF n = 0 THEN <<>>
    ELSE LET before == SnapshotFields(strongs, n - 1)
             at     == FindStrong(strongs, fields[n][1])
             tag    == strongs[at]
         IN  IF before = <<"raise">> THEN before
             ELSE IF at = 0 \/ ~tag.br THEN before
             ELSE IF tag.sib # "text" THEN <<"raise">>
             ELSE IF clean_value(Strip(tag.text)).kind = "raise" THEN <<"raise">>
             ELSE Append(before, <<fields[n][2], clean_value(Strip(tag.text))>>)

\* the one-row DataFrame of snapshot_data, or the exception
scrape_company_snapshot(soup) ==
    IF ~soup.div THEN Frame(<<>>, <<<<>>>>)
    ELSE LET data == SnapshotFields(soup.strongs, Len(fields))
         IN  IF data = <<"raise">> THEN Raised("Exception")
             ELSE Frame([i \in DOMAIN data |-> data[i][1]],
                        <<[i \in DOMAIN data |-> data[i][2]]>>)

-----------------------------------------------------------------------------
(* stock_scrapper.scrape_company_data and the endpoints it reads *)

Endpoints == {"company", "financials", "payouts"}

\* tab_mapping, in insertion order
Tabs == <<"nav-statement", "nav-balance", "nav-cash", "nav-ratioFinance", "nav-equity">>

TabFile(tab) ==
    CASE tab = "nav-statement"    -> "income_statement.csv"
      [] tab = "nav-balance"      -> "balance_sheet.csv"
      [] tab = "nav-cash"         -> "cash_flow.csv"
      [] tab = "nav-ratioFinance" -> "financial_ratios.csv"
      [] tab = "nav-equity"       -> "equity.csv"

TabSet == {Tabs[i] : i \in DOMAIN Tabs}

FileNames == {"company_snapshot.csv", "payouts.csv"} \cup {TabFile(t) : t \in TabSet}

NoFile == [status |-> "nofile", exc |-> "", headers |-> <<>>, rows |-> <<>>]

\* what an endpoint answers: requests.get raises ("conn_error"), or gives a
\* response with a non-2xx status ("http_error") or a 2xx one ("ok"), and the
\* parsed body
Response(net, doc) == [net |-> net, doc |-> doc]

Request(endpoint, sym) == [endpoint |-> endpoint, symbol |-> sym]

LogEntry(level, fn, msg) == [level |-> level, fn |-> fn, msg |-> msg]

\* sample pages
LabelText == <<"k">>
SnapMissing == SnapDoc(FALSE, <<>>)
SnapGood ==
    SnapDoc(TRUE, <<Strong("Current Price", TRUE, "text", <<"1", "K">>),
                    Strong("52 Week High", TRUE, "text", <<"1">>)>>)
SnapNoSibling == SnapDoc(TRUE, <<Strong("Volume", TRUE, "none", <<>>)>>)

TabMissing == TabDoc(FALSE, FALSE, <<>>)
TabNoTable == TabDoc(TRUE, FALSE, <<>>)
TabEmptyTable == TabDoc(TRUE, TRUE, <<>>)
TabGood ==
    TabDoc(TRUE, TRUE,
           << <<Cell("th", <<>>), Cell("th", <<"0">>), Cell("th", <<"1">>)>>,
              <<Cell("td", LabelText), Cell("td", <<"1", "K">>), Cell("td", <<"-">>)>>,
              <<Cell("td", LabelText)>> >>)

SampleTabs == {TabMissing, TabEmptyTable, TabGood}

PayMissing == PayoutDoc(FALSE, FALSE, FALSE, <<>>, <<>>)
PayGood ==
    PayoutDoc(TRUE, TRUE, TRUE, <<Year, PayoutPct>>,
              << << <<"1">>, <<"1">> >>, << <<"0">>, <<"-">> >> >>)
PayLongRow ==
    PayoutDoc(TRUE, TRUE, TRUE, <<Year, PayoutPct>>,
              << << <<"1">>, <<"1">>, <<"1">> >> >>)

SampleSymbols == {<<"A">>, <<"A", "1">>}

PageResponses ==
    {Response("conn_error", SnapMissing), Response("http_error", SnapMissing)}
        \cup {Response("ok", d) : d \in {SnapMissing, SnapGood, SnapNoSibling}}

\* the statements fragments: every tab one of SampleTabs, or one tab a section
\* without a table among tabs that are missing or good
FinDocs ==
    [TabSet -> SampleTabs]
        \cup {d \in [TabSet -> {TabMissing, TabNoTable, TabGood}] :
                 Cardinality({t \in TabSet : d[t] = TabNoTable}) = 1}

\* an error page holds none of the sections
FinResponses ==
    {Response("conn_error", [t \in TabSet |-> TabMissing]),
     Response("http_error", [t \in TabSet |-> TabMissing])}
        \cup {Response("ok", d) : d \in FinDocs}

PayResponses ==
    {Response("conn_error", PayMissing), Response("http_error", PayMissing)}
        \cup {Response("ok", d) : d \in {PayMissing, PayGood, PayLongRow}}

\* requests.get(url) raises a RequestException
GetRaises(r) == r.net = "conn_error"

\* response.raise_for_status() raises a RequestException
StatusRaises(r) == r.net = "http_error"

\* no dashboard: scrape_company_data is called from its own script
NoSession == [data_downloaded |-> FALSE, clicks |-> 0, handling |-> FALSE, found |-> {}]

\* the first call of a session: no run before it
FirstRun == [n |-> 1, files |-> <<>>]

Write(name, frame) == [files EXCEPT ![name] = frame]

\* the exception leaves scrape_company_data through `except RequestException`,
\* which logs it and returns
NetworkError(fn) ==
    /\ log' = log \o (IF fn = "scrape_company_data" THEN <<>>
                      ELSE <<LogEntry("error", fn, "Error")>>)
                  \o <<LogEntry("error", "scrape_company_data", "Network error occurred")>>
    /\ outcome' = "returned"
    /\ pc' = "done"

\* the exception leaves scrape_company_data through `except Exception`, which
\* logs it and raises it again
UnexpectedError(fn) ==
    /\ log' = log \o <<LogEntry("error", fn, "Error"),
                       LogEntry("error", "scrape_company_data",
                                "An unexpected error occurred")>>
    /\ outcome' = "raised"
    /\ pc' = "done"

\* the company page and the statements fragment requested together up front
FetchPagesUpFront ==
    /\ pc = "start"
    /\ requests' = requests \o <<Request("company", symbol), Request("financials", symbol)>>
    /\ IF GetRaises(web.company) \/ StatusRaises(web.company)
       THEN NetworkError("scrape_company_data")
       ELSE /\ pc' = "snapshot"
            /\ UNCHANGED <<log, outcome>>
    /\ UNCHANGED <<symbol, web, tabIdx, files>>
    /\ UNCHANGED <<analyzer, normVars, tableVars, snapVars, stock, prior, session>>

FetchCompanyPage ==
    /\ pc = "start"
    /\ requests' = Append(requests, Request("company", symbol))
    /\ IF GetRaises(web.company) \/ StatusRaises(web.company)
       THEN NetworkError("scrape_company_data")
       ELSE /\ pc' = "snapshot"
            /\ UNCHANGED <<log, outcome>>
    /\ UNCHANGED <<symbol, web, tabIdx, files>>
    /\ UNCHANGED <<analyzer, normVars, tableVars, snapVars, stock, prior, session>>

SaveSnapshot ==
    /\ pc = "snapshot"
    /\ LET snapshot == scrape_company_snapshot(web.company.doc)
       IN  IF snapshot.status = "raise"
           THEN /\ UnexpectedError("scrape_company_snapshot")
                /\ UNCHANGED files
           ELSE /\ log' = log
                     \o (IF ~web.company.doc.div
                         THEN <<LogEntry("warning", "scrape_company_snapshot",
                                         "Company snapshot table not found")>>
                         ELSE <<>>)
                     \o (IF snapshot.headers = <<>>
                         THEN <<LogEntry("warning", "scrape_company_data",
                                         "No snapshot data was retrieved")>>
                         ELSE <<>>)
                /\ files' = Write("company_snapshot.csv", snapshot)
                /\ pc' = "financials"
                /\ UNCHANGED outcome
    /\ UNCHANGED <<symbol, web, tabIdx, requests>>
    /\ UNCHANGED <<analyzer, normVars, tableVars, snapVars, stock, prior, session>>

FetchFinancials ==
    /\ pc = "financials"
    /\ requests' = Append(requests, Request("financials", symbol))
    /\ IF GetRaises(web.financials)
       THEN NetworkError("scrape_financial_data")
       ELSE /\ pc' = "tab"
            /\ UNCHANGED <<log, outcome>>
    /\ UNCHANGED <<symbol, web, tabIdx, files>>
    /\ UNCHANGED <<analyzer, normVars, tableVars, snapVars, stock, prior, session>>

\* the tab loop keeping its DataFrames and writing them all after the last tab
ProcessTabBatched ==
    /\ pc = "tab"
    /\ LET tab   == Tabs[tabIdx]
           frame == ExtractStatement(web.financials.doc[tab])
           all   == [f \in FileNames |->
                       IF \E t \in TabSet :
                              /\ TabFile(t) = f
                              /\ ExtractStatement(web.financials.doc[t]).status = "ok"
                       THEN ExtractStatement(web.financials.doc[
                                CHOOSE t \in TabSet : TabFile(t) = f])
                       ELSE files[f]]
       IN  IF frame.status = "raise"
           THEN /\ UnexpectedError("scrape_financial_data")
                /\ UNCHANGED <<files, tabIdx>>
           ELSE /\ log' = IF frame.status = "notfound"
                          THEN Append(log, LogEntry("warning", "scrape_financial_data", tab))
                          ELSE log
                /\ files' = IF tabIdx = Len(Tabs) THEN all ELSE files
                /\ pc' = IF tabIdx = Len(Tabs) THEN "payouts" ELSE "tab"
                /\ tabIdx' = IF tabIdx = Len(Tabs) THEN 1 ELSE tabIdx + 1
                /\ UNCHANGED outcome
    /\ UNCHANGED <<symbol, web, requests>>
    /\ UNCHANGED <<analyzer, normVars, tableVars, snapVars, stock, prior, session>>

ProcessTab ==
    /\ pc = "tab"
    /\ LET tab   == Tabs[tabIdx]
           frame == ExtractStatement(web.financials.doc[tab])
           next  == /\ pc' = IF tabIdx = Len(Tabs) THEN "payouts" ELSE "tab"
                    /\ tabIdx' = IF tabIdx = Len(Tabs) THEN 1 ELSE tabIdx + 1
                    /\ UNCHANGED outcome
       IN  CASE frame.status = "notfound" ->
                  /\ log' = Append(log, LogEntry("warning", "scrape_financial_data", tab))
                  /\ UNCHANGED files
                  /\ next
             [] frame.status = "notable" ->
                  /\ UNCHANGED <<log, files>>
                  /\ next
             [] frame.status = "raise" ->
                  /\ UnexpectedError("scrape_financial_data")
                  /\ UNCHANGED <<files, tabIdx>>
             [] frame.status = "ok" ->
                  /\ files' = Write(TabFile(tab), frame)
                  /\ UNCHANGED log
                  /\ next
    /\ UNCHANGED <<symbol, web, requests>>
    /\ UNCHANGED <<analyzer, normVars, tableVars, snapVars, stock, prior, session>>

FetchPayouts ==
    /\ pc = "payouts"
    /\ requests' = Append(requests, Request("payouts", symbol))
    /\ IF GetRaises(web.payouts)
       THEN NetworkError("scrape_payout_data")
       ELSE /\ pc' = "payout_table"
            /\ UNCHANGED <<log, outcome>>
    /\ UNCHANGED <<symbol, web, tabIdx, files>>
    /\ UNCHANGED <<analyzer, normVars, tableVars, snapVars, stock, prior, session>>

ProcessPayouts ==
    /\ pc = "payout_table"
    /\ LET frame == ExtractPayouts(web.payouts.doc)
       IN  CASE frame.status = "notfound" ->
                  /\ log' = Append(log, LogEntry("warning", "scrape_payout_data",
                                                 "Payout table not found"))
                  /\ UNCHANGED files
                  /\ outcome' = "returned"
                  /\ pc' = "done"
             [] frame.status = "raise" ->
                  /\ UnexpectedError("scrape_payout_data")
                  /\ UNCHANGED files
             [] frame.status = "ok" ->
                  /\ files' = Write("payouts.csv", frame)
                  /\ UNCHANGED log
                  /\ outcome' = "returned"
                  /\ pc' = "done"
    /\ UNCHANGED <<symbol, web, tabIdx, requests>>
    /\ UNCHANGED <<analyzer, normVars, tableVars, snapVars, stock, prior, session>>

-----------------------------------------------------------------------------
(* stock_scapper.scrape_stock_data *)

\* a <td> or <th> of the snapshot table: whether it holds a <strong>, that
\* element's text with its blanks collapsed, and the last line of the cell's text
StockCell(strong, header, last) == [strong |-> strong, header |-> header, last |-> last]

\* the company page: whether <div class=company_snapshot_content> is there,
\* whether it holds a <table>, and the cells of the table in document order
StockDoc(div, table, cells) == [div |-> div, table |-> table, cells |-> cells]

essential_columns ==
    << <<"Current", "price">>, <<"Volume", "volume">>,
       <<"Price to Earnings Ratio", "pe_ratio">>, <<"Earning per Share", "eps">>,
       <<"Book Value", "book_value">>, <<"Market Cap", "market_cap">>,
       <<"Dividend", "dividend">>, <<"Dividend Yield (%)", "dividend_yield">>,
       <<"Debt to Equity", "debt_equity_ratio">>, <<"Net Profit Margin", "net_margin">>,
       <<"Gross Profit Margin", "gross_margin">>, <<"52 Week High", "high_52w">>,
       <<"52 Week Low", "low_52w">>, <<"Return on Equity", "roe">>,
       <<"Return on Assets", "roa">>, <<"Current Ratio", "current_ratio">>,
       <<"Quick Ratio", "quick_ratio">>, <<"Operating Margin", "operating_margin">>,
       <<"Beta", "beta">>, <<"Shares Outstanding", "shares_outstanding">>,
       <<"Face Value", "face_value">>, <<"Free Float", "free_float">>,
       <<"Free Float %", "free_float_percent">>, <<"Change", "change">>,
       <<"Change %", "change_percent">>, <<"Times-Revenue Method", "times_revenue">> >>

percentage_columns ==
    {"dividend_yield", "net_margin", "gross_margin", "operating_margin", "roe", "roa",
     "change_percent", "free_float_percent"}

IsEssential(header) == \E i \in DOMAIN essential_columns : essential_columns[i][1] = header

ColumnOf(header) ==
    essential_columns[CHOOSE i \in DOMAIN essential_columns :
                          essential_columns[i][1] = header][2]

\* data[key] = value: a new key goes last, a known key keeps its place
Put(data, key, value) ==
    IF \E i \in DOMAIN data : data[i][1] = key
    THEN [i \in DOMAIN data |-> IF data[i][1] = key THEN <<key, value>> ELSE data[i]]
    ELSE Append(data, <<key, value>>)

\* the data dict after the first n cells
RECURSIVE StockData(_, _)
StockData(cells, n) ==
    IF n = 0 THEN <<>>
    ELSE LET before == StockData(cells, n - 1)
             cell   == cells[n]
         IN  IF cell.strong /\ IsEssential(cell.header)
             THEN Put(before, ColumnOf(cell.header), extract_numeric(Strip(cell.last)))
             ELSE before

\* x / 100 if x is not None else None
Percent(key, x) ==
    IF key \in percentage_columns /\ x.kind = "num" THEN Times10(x, 0 - 2) ELSE x

\* symbol.strip() is empty, or the stripped upper-cased symbol is not ^[A-Z]+$
SymbolRejected(sym) ==
    \/ Strip(sym) = <<>>
    \/ \E i \in DOMAIN Strip(sym) : Upper(Strip(sym))[i] # "A"

\* the one-row DataFrame written to stock_data_<symbol>_<date>.csv
StockFrame(sym, doc, now) ==
    LET data == StockData(doc.cells, Len(doc.cells))
                    \o << <<"symbol", StrVal(sym)>>, <<"timestamp", StrVal(now)>>,
                          <<"source_url", StrVal(sym)>> >>
    IN  Frame([i \in DOMAIN data |-> data[i][1]],
              <<[i \in DOMAIN data |-> Percent(data[i][1], data[i][2])]>>)

StockIdle ==
    [pc |-> "idle", arg |-> <<>>, symbol |-> <<>>, page |-> Response("conn_error", <<>>),
     requests |-> <<>>, file |-> NoFile, outcome |-> "running", exc |-> "",
     n |-> 1, prior |-> NoFile]

StockRaise(exc) == [stock EXCEPT !.pc = "done", !.outcome = "raised", !.exc = exc]

ValidateSymbol ==
    /\ stock.pc = "start"
    /\ stock' = IF SymbolRejected(stock.symbol)
                THEN StockRaise("ValueError")
                ELSE [stock EXCEPT !.pc = "fetch", !.symbol = Upper(Strip(stock.symbol))]
    /\ UNCHANGED <<analyzer, normVars, tableVars, snapVars, scrapeVars>>

FetchStockPage ==
    /\ stock.pc = "fetch"
    /\ stock' = IF GetRaises(stock.page) \/ StatusRaises(stock.page)
                THEN [StockRaise("ConnectionError") EXCEPT
                          !.requests = Append(stock.requests,
                                              Request("company", stock.symbol))]
                ELSE [stock EXCEPT !.pc = "extract",
                          !.requests = Append(stock.requests,
                                              Request("company", stock.symbol))]
    /\ UNCHANGED <<analyzer, normVars, tableVars, snapVars, scrapeVars>>

SaveStockData ==
    /\ stock.pc = "extract"
    /\ \E now \in {<<"0">>, <<"1">>} :
          stock' = IF ~stock.page.doc.div \/ ~stock.page.doc.table
                   THEN StockRaise("ValueError")
                   ELSE [stock EXCEPT !.pc = "done", !.outcome = "returned",
                             !.file = StockFrame(stock.symbol, stock.page.doc, now)]
    /\ UNCHANGED <<analyzer, normVars, tableVars, snapVars, scrapeVars>>

-----------------------------------------------------------------------------
(* company_analyzer.CompanyAnalyzer *)

\* the fields of CompanyMetrics and HistoricalData the analyses read
CompanyMetrics(dps, eps, cr, ic, de, pe, pb, npm, gpm) ==
    [dividend_per_share |-> dps, eps |-> eps, current_ratio |-> cr,
     interest_coverage |-> ic, debt_to_equity |-> de, pe_ratio |-> pe,
     pb_ratio |-> pb, net_profit_margin |-> npm, gross_profit_margin |-> gpm,
     current_price |-> 1, market_cap |-> 1]

HistoricalData(dividends, eps) == [dividends |-> dividends, eps |-> eps, revenue |-> <<1>>]

\* a fraction num/den with den > 0
Frac(num, den) == IF den < 0 THEN <<0 - num, 0 - den>> ELSE <<num, den>>

\* the sum over i of (xs[i+1] / xs[i] - 1), as a fraction; xs[i] # 0
RECURSIVE GrowthSum(_, _)
GrowthSum(xs, n) ==
    IF n <= 1 THEN <<0, 1>>
    ELSE LET rest == GrowthSum(xs, n - 1)
             term == Frac(xs[n] - xs[n - 1], xs[n - 1])
         IN  <<rest[1] * term[2] + term[1] * rest[2], rest[2] * term[2]>>

RECURSIVE Sum(_, _)
Sum(xs, n) == IF n = 0 THEN 0 ELSE Sum(xs, n - 1) + xs[n]

\* np.mean of the yearly growth in percent is above `percent`; the mean of an
\* empty list is nan, which is above nothing
GrowthAbove(xs, percent) ==
    /\ Len(xs) > 1
    /\ LET sum == GrowthSum(xs, Len(xs))
       IN  sum[1] * 100 > percent * (Len(xs) - 1) * sum[2]

\* a division by zero in the growth rates
GrowthRaises(xs) == \E i \in 1..(Len(xs) - 1) : xs[i] = 0

\* 0 <= (dividend_per_share / eps) * 100 <= 75
PayoutCovered(m) ==
    LET num == m.dividend_per_share * 100
    IN  IF m.eps > 0 THEN 0 <= num /\ num <= 75 * m.eps
        ELSE 0 >= num /\ num >= 75 * m.eps

\* pe_ratio < avg_pe, the mean of eps[i] / current_price
BelowAveragePE(m, h) ==
    /\ h.eps # <<>>
    /\ IF m.current_price > 0
       THEN m.pe_ratio * m.current_price * Len(h.eps) < Sum(h.eps, Len(h.eps))
       ELSE m.pe_ratio * m.current_price * Len(h.eps) > Sum(h.eps, Len(h.eps))

Points(cond) == IF cond THEN 1 ELSE 0

sustainability_score(m, h) ==
    Points(PayoutCovered(m)) + Points(2 * m.current_ratio > 3)
        + Points(m.interest_coverage > 3) + Points(GrowthAbove(h.dividends, 0))
        + Points(m.debt_to_equity < 1)

valuation_score(m, h) ==
    Points(BelowAveragePE(m, h)) + Points(m.pb_ratio < 1)
        + Points(GrowthAbove(h.eps, 10)) + Points(m.net_profit_margin > 15)

health_score(m) ==
    Points(m.debt_to_equity < 1) + Points(2 * m.current_ratio > 3)
        + Points(m.interest_coverage > 3) + Points(m.net_profit_margin > 15)
        + Points(m.gross_profit_margin > 30)

DividendAdvice(score) ==
    IF score >= 4 THEN "Strong dividend sustainability profile"
    ELSE IF score >= 3 THEN "Moderate dividend sustainability"
    ELSE "Dividend sustainability concerns present"

ValuationAdvice(score) ==
    IF score >= 3 THEN "Company appears undervalued"
    ELSE IF score = 2 THEN "Company appears fairly valued"
    ELSE "Company may be overvalued"

HealthAdvice(score) ==
    IF score >= 4 THEN "Strong financial health"
    ELSE IF score >= 3 THEN "Adequate financial health"
    ELSE "Financial health needs monitoring"

\* generate_report with `total_score > 10` for its first threshold
investment_rating_above(total_score) ==
    IF total_score > 10 THEN "Strong Buy"
    ELSE IF total_score >= 8 THEN "Buy"
    ELSE IF total_score >= 6 THEN "Hold"
    ELSE "Sell"

investment_rating(total_score) ==
    IF total_score >= 10 THEN "Strong Buy"
    ELSE IF total_score >= 8 THEN "Buy"
    ELSE IF total_score >= 6 THEN "Hold"
    ELSE "Sell"

\* analyze_dividend_sustainability and analyze_valuation divide by these
DividendRaises(m, h) == m.eps = 0 \/ GrowthRaises(h.dividends)

ValuationRaises(m, h) ==
    \/ m.current_price = 0 /\ h.eps # <<>>
    \/ GrowthRaises(h.eps)
    \/ h.revenue = <<>>
    \/ h.revenue[Len(h.revenue)] = 0

NoScores == [dividend |-> -1, valuation |-> -1, financial_health |-> -1]

\* CompanyAnalyzer.__init__; reports: what each call of generate_report gave.
\* A report's 'recommendations' is the analyzer's own list, not a copy.
NewAnalyzer(m, h) ==
    [pc |-> "ready", metrics |-> m, historical |-> h, analysis_results |-> NoScores,
     recommendations |-> <<>>, reports |-> <<>>]

AnalyzerIdle ==
    [NewAnalyzer(CompanyMetrics(0, 1, 0, 0, 0, 0, 0, 0, 0), HistoricalData(<<>>, <<>>))
        EXCEPT !.pc = "idle"]

Report(rating, total, date) ==
    [raised |-> FALSE, investment_rating |-> rating, total_score |-> total,
     analysis_date |-> date]

NoReport == [raised |-> TRUE, investment_rating |-> "", total_score |-> -1,
             analysis_date |-> ""]

generate_report ==
    /\ analyzer.pc = "ready"
    /\ Len(analyzer.reports) < MaxCalls
    /\ \E today \in {"2026-11-02", "2026-11-03"} :
          LET m == analyzer.metrics
              h == analyzer.historical
              d == sustainability_score(m, h)
              v == valuation_score(m, h)
              f == health_score(m)
          IN  analyzer' =
                IF DividendRaises(m, h)
                THEN [analyzer EXCEPT !.reports = Append(@, NoReport)]
                ELSE IF ValuationRaises(m, h)
                THEN [analyzer EXCEPT
                        !.analysis_results.dividend = d,
                        !.recommendations = Append(@, DividendAdvice(d)),
                        !.reports = Append(@, NoReport)]
                ELSE [analyzer EXCEPT
                        !.analysis_results =
                            [dividend |-> d, valuation |-> v, financial_health |-> f],
                        !.recommendations =
                            @ \o <<DividendAdvice(d), ValuationAdvice(v), HealthAdvice(f)>>,
                        !.reports =
                            Append(@, Report(investment_rating(d + v + f), d + v + f, today))]
    /\ UNCHANGED <<normVars, tableVars, snapVars, scrapeVars, stock>>

-----------------------------------------------------------------------------
(* The runs *)

NormIdle == raw = <<>> /\ cv = Pending /\ en = Pending

TableIdle ==
    /\ tbl = TabMissing
    /\ ptbl = PayMissing
    /\ stmt = NotRun
    /\ pres = NotRun

SnapIdle == company_soup = SnapMissing /\ snapshot_data = NotRun

ScrapeIdle ==
    /\ symbol = <<>>
    /\ web = [e \in Endpoints |-> Response("conn_error", <<>>)]
    /\ pc = "idle"
    /\ tabIdx = 1
    /\ requests = <<>>
    /\ files = [f \in FileNames |-> NoFile]
    /\ log = <<>>
    /\ outcome = "running"
    /\ prior = FirstRun
    /\ session = NoSession

(* The normalizer run: one text, each normalizer applied to it once *)

NormInit ==
    /\ raw \in Texts
    /\ cv = Pending
    /\ en = Pending
    /\ TableIdle
    /\ SnapIdle
    /\ ScrapeIdle
    /\ analyzer = AnalyzerIdle
    /\ stock = StockIdle

CallCleanValue ==
    /\ cv = Pending
    /\ cv' = clean_value(raw)
    /\ UNCHANGED <<raw, en>>
    /\ UNCHANGED <<analyzer, tableVars, snapVars, scrapeVars, stock>>

CallExtractNumeric ==
    /\ en = Pending
    /\ en' = extract_numeric(raw)
    /\ UNCHANGED <<raw, cv>>
    /\ UNCHANGED <<analyzer, tableVars, snapVars, scrapeVars, stock>>

NormNext == CallCleanValue \/ CallExtractNumeric

SpecNorm == NormInit /\ [][NormNext]_vars

(* The table run: one statement section or one payout fragment, extracted once *)

HeaderTexts == {<<"0">>, <<"1">>}
DataTexts   == {<<"1", "K">>, <<"K">>, <<"1">>}
PayoutTexts == {<<"-">>, <<"1">>}

RECURSIVE SeqsUpTo(_, _)
SeqsUpTo(S, n) ==
    IF n = 0 THEN {<<>>}
    ELSE LET shorter == SeqsUpTo(S, n - 1)
         IN  shorter \cup {Append(s, x) : s \in shorter, x \in S}

HeaderRows == SeqsUpTo({Cell(t, x) : t \in {"th", "td"}, x \in HeaderTexts}, MaxCells)
DataRows   == SeqsUpTo({Cell("td", x) : x \in DataTexts}, MaxCells)

StatementTabs ==
    {TabDoc(FALSE, FALSE, <<>>), TabDoc(TRUE, FALSE, <<>>), TabDoc(TRUE, TRUE, <<>>)}
        \cup {TabDoc(TRUE, TRUE, <<h>> \o rs) :
                h \in HeaderRows, rs \in SeqsUpTo(DataRows, MaxRows)}

Injective(s) == \A i, j \in DOMAIN s : s[i] = s[j] => i = j

PayoutHeads ==
    {h \in SeqsUpTo({Year, PayoutPct, FaceValue}, MaxCells) : h # <<>> /\ Injective(h)}

\* every <tr> of the body holds at least one <td>
PayoutRows == SeqsUpTo(PayoutTexts, MaxCells + 1) \ {<<>>}

PayoutDocs ==
    {PayoutDoc(FALSE, FALSE, FALSE, <<>>, <<>>),
     PayoutDoc(TRUE, FALSE, TRUE, <<>>, <<>>),
     PayoutDoc(TRUE, TRUE, FALSE, <<Year>>, <<>>)}
        \cup {PayoutDoc(TRUE, TRUE, TRUE, h, b) :
                h \in PayoutHeads, b \in SeqsUpTo(PayoutRows, MaxRows)}

TableInit ==
    /\ \/ tbl \in StatementTabs /\ ptbl = PayMissing
       \/ tbl = TabMissing /\ ptbl \in PayoutDocs
    /\ stmt = NotRun
    /\ pres = NotRun
    /\ NormIdle
    /\ SnapIdle
    /\ ScrapeIdle
    /\ analyzer = AnalyzerIdle
    /\ stock = StockIdle

RunExtractStatement ==
    /\ stmt = NotRun
    /\ stmt' = ExtractStatement(tbl)
    /\ UNCHANGED <<tbl, ptbl, pres>>
    /\ UNCHANGED <<analyzer, normVars, snapVars, scrapeVars, stock>>

RunExtractPayouts ==
    /\ pres = NotRun
    /\ pres' = ExtractPayouts(ptbl)
    /\ UNCHANGED <<tbl, ptbl, stmt>>
    /\ UNCHANGED <<analyzer, normVars, snapVars, scrapeVars, stock>>

TableNext == RunExtractStatement \/ RunExtractPayouts

SpecTable == TableInit /\ [][TableNext]_vars

(* The snapshot run: one company page, scrape_company_snapshot applied once *)

SnapTitles == {"High", "52 Week High", "Volume", "Sector"}
SnapTexts  == {<<"1">>, <<"-">>}

\* a <strong> with no <br> after it, with a <br> that is the last node of its
\* parent, with a <br> followed by an element, or with a <br> followed by text
Strongs ==
    {Strong(t, FALSE, "none", <<>>) : t \in SnapTitles}
        \cup {Strong(t, TRUE, s, <<>>) : t \in SnapTitles, s \in {"none", "tag"}}
        \cup {Strong(t, TRUE, "text", x) : t \in SnapTitles, x \in SnapTexts}

\* find_next('br') looks through the rest of the document: a <br> after a later
\* <strong> is after every earlier one too
BrFollows(strongs) ==
    \A i, j \in DOMAIN strongs : (i < j /\ strongs[j].br) => strongs[i].br

SnapDocs ==
    {SnapMissing}
        \cup {SnapDoc(TRUE, ss) : ss \in {x \in SeqsUpTo(Strongs, MaxStrongs) : BrFollows(x)}}

SnapInit ==
    /\ company_soup \in SnapDocs
    /\ snapshot_data = NotRun
    /\ NormIdle
    /\ TableIdle
    /\ ScrapeIdle
    /\ analyzer = AnalyzerIdle
    /\ stock = StockIdle

RunSnapshot ==
    /\ snapshot_data = NotRun
    /\ snapshot_data' = scrape_company_snapshot(company_soup)
    /\ UNCHANGED company_soup
    /\ UNCHANGED <<analyzer, normVars, tableVars, scrapeVars, stock>>

SnapNext == RunSnapshot

SpecSnap == SnapInit /\ [][SnapNext]_vars

(* The stock run: scrape_stock_data(symbol), once, against a fixed company page *)

SymChars == {"A", "a", "1", " "}

StockCells ==
    <<StockCell(TRUE, "Current", <<"1", ",", "0">>),
      StockCell(TRUE, "Change %", <<"-", "1", "%">>),
      StockCell(TRUE, "Sector", <<"k">>),
      StockCell(FALSE, "", <<"1">>),
      StockCell(TRUE, "Current", <<"-">>)>>

StockPages ==
    {Response("conn_error", StockDoc(FALSE, FALSE, <<>>)),
     Response("http_error", StockDoc(FALSE, FALSE, <<>>)),
     Response("ok", StockDoc(FALSE, FALSE, <<>>)),
     Response("ok", StockDoc(TRUE, FALSE, <<>>))}
        \cup {Response("ok", StockDoc(TRUE, TRUE, SubSeq(StockCells, 1, n))) :
                n \in 0..Len(StockCells)}

StockInit ==
    /\ \E sym \in StringsUpTo(SymChars, MaxSymLen), page \in StockPages :
          stock = [StockIdle EXCEPT !.pc = "start", !.arg = sym, !.symbol = sym,
                                   !.page = page]
    /\ NormIdle
    /\ TableIdle
    /\ SnapIdle
    /\ ScrapeIdle
    /\ analyzer = AnalyzerIdle

StockNext == ValidateSymbol \/ FetchStockPage \/ SaveStockData

SpecStock == StockInit /\ [][StockNext]_vars

(* The scrape run: scrape_company_data(symbol), once, against fixed endpoints *)

Init ==
    /\ symbol \in SampleSymbols
    /\ web \in [company : PageResponses, financials : FinResponses,
                payouts : PayResponses]
    /\ pc = "start"
    /\ tabIdx = 1
    /\ requests = <<>>
    /\ files = [f \in FileNames |-> NoFile]
    /\ log = <<>>
    /\ outcome = "running"
    /\ prior = FirstRun
    /\ session = NoSession
    /\ NormIdle
    /\ TableIdle
    /\ SnapIdle
    /\ stock = StockIdle
    /\ analyzer = AnalyzerIdle

Next ==
    \/ FetchCompanyPage
    \/ SaveSnapshot
    \/ FetchFinancials
    \/ ProcessTab
    \/ FetchPayouts
    \/ ProcessPayouts

Spec == Init /\ [][Next]_vars

(* The repeated run: either entry point called a second time with the same
   symbol, against the same pages and the files the first call left *)

\* scrape_company_data(symbol) called again: the directory is as the call left it
Rerun ==
    /\ pc = "done"
    /\ prior.n = 1
    /\ prior' = [n |-> 2, files |-> files]
    /\ pc' = "start"
    /\ tabIdx' = 1
    /\ requests' = <<>>
    /\ log' = <<>>
    /\ outcome' = "running"
    /\ UNCHANGED <<symbol, web, files, session>>
    /\ UNCHANGED <<analyzer, normVars, tableVars, snapVars, stock>>

\* scrape_stock_data(symbol) called again
RerunStock ==
    /\ stock.pc = "done"
    /\ stock.n = 1
    /\ stock' = [stock EXCEPT !.pc = "start", !.symbol = stock.arg, !.n = 2,
                              !.prior = stock.file, !.requests = <<>>,
                              !.outcome = "running", !.exc = ""]
    /\ UNCHANGED <<analyzer, normVars, tableVars, snapVars, scrapeVars>>

RerunInit ==
    \/ Init /\ symbol = <<"A">>
    \/ StockInit

RerunNext == Next \/ Rerun \/ StockNext \/ RerunStock

SpecRerun == RerunInit /\ [][RerunNext]_vars

(* The dashboard: streamlit_app.main, the 'Download Financial Data' button
   clicked up to MaxClicks times, each time for some symbol and some pages *)

\* a folder that is only created when missing, its files left in place
keep_financial_data_folder(folder) == folder

\* shutil.rmtree('financial_data') and os.makedirs('financial_data')
clean_financial_data_folder(folder) == [f \in DOMAIN folder |-> NoFile]

DashPages == {Response("conn_error", SnapMissing), Response("ok", SnapGood)}

DashFins ==
    {Response("conn_error", [t \in TabSet |-> TabMissing]),
     Response("ok", [t \in TabSet |-> TabGood]),
     Response("ok", [t \in TabSet |-> IF t = "nav-cash" THEN TabEmptyTable ELSE TabGood]),
     Response("ok", [t \in TabSet |-> IF t = "nav-statement" THEN TabGood ELSE TabMissing])}

DashPays == {Response("ok", PayGood), Response("ok", PayMissing)}

DashInit ==
    /\ ScrapeIdle
    /\ analyzer = AnalyzerIdle
    /\ NormIdle
    /\ TableIdle
    /\ SnapIdle
    /\ stock = StockIdle

\* the button is clicked: the folder is cleaned and scrape_company_data(symbol)
\* is called (session.found: the files that were in the folder at the click)
ClickDownload ==
    /\ ~session.handling
    /\ session.clicks < MaxClicks
    /\ pc \in {"idle", "done"}
    /\ session' = [session EXCEPT !.handling = TRUE, !.clicks = session.clicks + 1,
                                  !.found = {f \in FileNames : files[f] # NoFile}]
    /\ symbol' \in SampleSymbols
    /\ web' \in [company : DashPages, financials : DashFins, payouts : DashPays]
    /\ files' = clean_financial_data_folder(files)
    /\ pc' = "start"
    /\ tabIdx' = 1
    /\ requests' = <<>>
    /\ log' = <<>>
    /\ outcome' = "running"
    /\ UNCHANGED prior
    /\ UNCHANGED <<analyzer, normVars, tableVars, snapVars, stock>>

\* scrape_company_data is back: the flag is set when it returned, cleared when
\* it raised
FinishDownload ==
    /\ session.handling
    /\ pc = "done"
    /\ session' = [session EXCEPT !.handling = FALSE,
                                  !.data_downloaded = (outcome = "returned")]
    /\ UNCHANGED <<symbol, web, pc, tabIdx, requests, files, log, outcome, prior>>
    /\ UNCHANGED <<analyzer, normVars, tableVars, snapVars, stock>>

DashNext == ClickDownload \/ Next \/ FinishDownload

SpecDash == DashInit /\ [][DashNext]_vars

-----------------------------------------------------------------------------
(* The analyzer run: one analyzer, generate_report called up to MaxCalls times *)

SampleMetrics ==
    {CompanyMetrics(dps, eps, cr, ic, de, pe, pb, npm, gpm) :
        dps \in {1, 2}, eps \in {0, 2}, cr \in {1, 2}, ic \in {3, 4}, de \in {0, 1},
        pe \in {1, 2}, pb \in {0, 1}, npm \in {15, 16}, gpm \in {30, 31}}

SampleHistory ==
    {HistoricalData(ds, es) :
        ds \in {<<1, 2>>, <<2, 1>>}, es \in {<<1, 2>>, <<2, 1>>, <<0, 1>>}}

AnalyzerInit ==
    /\ analyzer \in {NewAnalyzer(m, h) : m \in SampleMetrics, h \in SampleHistory}
    /\ NormIdle
    /\ TableIdle
    /\ SnapIdle
    /\ ScrapeIdle
    /\ stock = StockIdle

AnalyzerNext == generate_report

SpecAnalyzer == AnalyzerInit /\ [][AnalyzerNext]_vars

-----------------------------------------------------------------------------
(* The claims about the scrape run (Spec) *)

Done == pc = "done"

Written(f) == files[f].status = "ok"

NothingWritten == \A f \in FileNames : files[f] = NoFile

Unreachable(e) == GetRaises(web[e])

\* the company page was fetched and its snapshot extracted
PageOk ==
    /\ web.company.net = "ok"
    /\ scrape_company_snapshot(web.company.doc).status = "ok"

TabStatus(t) == ExtractStatement(web.financials.doc[t]).status

TabWellFormed(t) == TabStatus(t) = "ok"

PayWellFormed == ExtractPayouts(web.payouts.doc).status = "ok"

ErrorCount(fn) == Len(SelectSeq(log, LAMBDA x : x.level = "error" /\ x.fn = fn))

Letters == {"A", "a"}

ValidSymbol(s) == s # <<>> /\ \A i \in DOMAIN s : s[i] \in Letters

\* C1: when exactly one of the statements and payouts endpoints is unreachable,
\* the finished run has written the artifact of every category of the other
\* endpoint that is well-formed (the statement categories counted here are those
\* of a fragment in which no table is malformed).
C1_EndpointIndependence ==
    (Done /\ PageOk) =>
        /\ (Unreachable("financials") /\ ~Unreachable("payouts") /\ PayWellFormed)
              => Written("payouts.csv")
        /\ (/\ Unreachable("payouts") /\ ~Unreachable("financials")
            /\ \A t \in TabSet : TabStatus(t) # "raise")
              => \A t \in TabSet : TabWellFormed(t) => Written(TabFile(t))

\* C2: when a statement category's section is missing or its table malformed,
\* the run goes on, and the finished run has written the artifact of every later
\* well-formed category, payouts included.
C2_CategoryIndependence ==
    (Done /\ PageOk /\ ~Unreachable("financials")) =>
        \A i \in DOMAIN Tabs :
            TabStatus(Tabs[i]) \in {"notfound", "notable", "raise"} =>
                /\ \A j \in DOMAIN Tabs :
                       (j > i /\ TabWellFormed(Tabs[j])) => Written(TabFile(Tabs[j]))
                /\ (~Unreachable("payouts") /\ PayWellFormed) => Written("payouts.csv")

\* C3: when the company-page fetch fails, the finished run has issued no other
\* request, has written nothing, and has raised to its caller.
C3_PrimaryFetchFatal ==
    (Done /\ web.company.net # "ok") =>
        /\ requests = <<Request("company", symbol)>>
        /\ NothingWritten
        /\ outcome = "raised"

\* C4: for a symbol that is empty or holds a non-letter, no request is ever
\* issued and nothing is written, and the run ends raising; a non-empty
\* all-letter symbol is not rejected.
C4_SymbolValidatedFirst ==
    /\ ~ValidSymbol(symbol) =>
          /\ requests = <<>>
          /\ NothingWritten
          /\ Done => outcome = "raised"
    /\ ValidSymbol(symbol) => ~(Done /\ requests = <<>>)

\* C5: once the company page is fetched, the run never raises because of a
\* statement or payout category: it returns, a failure of the statement
\* categories is in the errors exactly once, and when no category failed every
\* well-formed category has its dataset.
C5_CategoryFailuresCollected ==
    (Done /\ PageOk) =>
        /\ outcome = "returned"
        /\ (Unreachable("financials") \/ \E t \in TabSet : TabStatus(t) = "raise")
              => ErrorCount("scrape_financial_data") = 1
        /\ (/\ ~Unreachable("financials") /\ ~Unreachable("payouts")
            /\ \A t \in TabSet : TabStatus(t) # "raise"
            /\ ExtractPayouts(web.payouts.doc).status # "raise")
              => /\ \A t \in TabSet : TabWellFormed(t) => Written(TabFile(t))
                 /\ PayWellFormed => Written("payouts.csv")

-----------------------------------------------------------------------------
(* The claims about the normalizers (SpecNorm) *)

Cleaned(t) == Remove(Remove(Strip(t), ","), "%")

ScaleLetters == {"K", "M", "B"}

Power(c) == CASE c = "K" -> 3 [] c = "M" -> 6 [] c = "B" -> 9

\* the text ends in one of the scale letters
HasSuffix(t) == t # <<>> /\ t[Len(t)] \in ScaleLetters

Mantissa(t) == ParseFloat(SubSeq(t, 1, Len(t) - 1))

\* v is the text t read with one of its scale letters taken out and applied
ScaledReading(v, t) ==
    \E c \in ScaleLetters :
        /\ Contains(t, c)
        /\ ParseFloat(Remove(t, c)).kind = "num"
        /\ ParseFloat(Remove(t, c)).m # 0
        /\ v = Times10(ParseFloat(Remove(t, c)), Power(c))

\* the first signed decimal of t as a number, absent when there is none
FirstDecimal(t) == IF FirstMatch(t) = <<>> THEN NoneVal ELSE ParseFloat(FirstMatch(t))

\* C6: whatever the text, each normalizer gives a number or the absent marker:
\* it neither raises nor hands back text.
C6_NormalizerTotal ==
    /\ cv # Pending => cv.kind \in {"num", "none"}
    /\ en # Pending => en.kind \in {"num", "none"}

\* C7: a text that is empty or a lone '-' once trimmed normalizes to the absent
\* marker, which is not the number zero.
C7_EmptyOrDashAbsent ==
    Strip(raw) \in {<<>>, <<"-">>} =>
        /\ cv # Pending => cv = NoneVal
        /\ en # Pending => en = NoneVal

\* C8: clean_value scales by 1e3, 1e6 or 1e9 exactly when the cleaned text ends
\* in K, M or B: a text ending in the letter gives its mantissa times the
\* factor, and no other text gives a scaled reading.
C8_ScaleSuffixOnly ==
    LET t == Strip(Cleaned(raw))
    IN  cv # Pending =>
            /\ (HasSuffix(t) /\ Mantissa(t).kind = "num")
                  => cv = Times10(Mantissa(t), Power(t[Len(t)]))
            /\ ~HasSuffix(t) => ~ScaledReading(cv, t)

\* C9: a cleaned text that is neither empty, a lone '-', suffixed, nor exactly a
\* number normalizes to its first signed decimal, or to absent if it has none.
C9_NumericFallback ==
    LET t == Cleaned(raw)
    IN  (/\ Strip(raw) \notin {<<>>, <<"-">>}
         /\ ~HasSuffix(Strip(t))
         /\ ParseFloat(t).kind = "raise") =>
            /\ cv # Pending => cv = FirstDecimal(t)
            /\ en # Pending => en = FirstDecimal(t)

-----------------------------------------------------------------------------
(* The claims about the table extractors (SpecTable) *)

\* how many of the rows have n cells
RowsOfWidth(rows, n) == Cardinality({i \in DOMAIN rows : Len(rows[i]) = n})

ShapeKept(frame) == \A i \in DOMAIN frame.rows : Len(frame.rows[i]) = Len(frame.headers)

\* C10: every record of an extracted statement or payout table has as many
\* columns as the schema, its records are the source rows of that many cells and
\* no others, and a row of another cell count never makes the extraction fail.
C10_RecordShape ==
    /\ stmt.status = "ok" =>
          /\ ShapeKept(stmt)
          /\ Len(stmt.rows) = RowsOfWidth(Tail(tbl.rows), Len(stmt.headers))
    /\ pres.status = "ok" =>
          /\ ShapeKept(pres)
          /\ Len(pres.rows) = RowsOfWidth(ptbl.body, Len(pres.headers))
    /\ (ptbl.table /\ ptbl.thead /\ ptbl.tbody) => pres.status \in {"pending", "ok"}

\* the index in rows of the k-th row that ok accepts
NthAccepted(rows, ok(_), k) ==
    CHOOSE p \in DOMAIN rows :
        ok(rows[p]) /\ Cardinality({q \in 1..p : ok(rows[q])}) = k

AcceptedCount(rows, ok(_)) == Cardinality({p \in DOMAIN rows : ok(rows[p])})

\* C11: the records of an extracted table are the accepted source rows in
\* document order: as many records as accepted rows, the k-th record made from
\* the k-th accepted row, so nothing is reordered and equal labels are both kept.
C11_OrderPreserved ==
    /\ stmt.status = "ok" =>
          LET src == Tail(tbl.rows)
              ok(r) == r # <<>> /\ Len(r) = Len(stmt.headers)
          IN  /\ Len(stmt.rows) = AcceptedCount(src, ok)
              /\ \A k \in DOMAIN stmt.rows :
                     stmt.rows[k] = StatementRow(src[NthAccepted(src, ok, k)])
    /\ pres.status = "ok" =>
          /\ Len(pres.rows) = Len(ptbl.body)
          /\ \A k \in DOMAIN pres.rows :
                 pres.rows[k] = ConvertRow(pres.headers,
                                           PadRow(ptbl.body[k], Len(pres.headers)))

\* C11 witness: a statement table extracted with two records of the same label
\* and different values, both kept
C11_Witness ==
    /\ stmt.status = "ok"
    /\ Len(stmt.rows) = 2
    /\ stmt.rows[1][1] = stmt.rows[2][1]
    /\ stmt.rows[1] # stmt.rows[2]

\* C12: the schema of an extracted statement table is 'Metric' followed by the
\* texts of the header row's cells after the first, in order; so its first column
\* is 'Metric' and, for a header row with a cell, it is as long as that row.
C12_SchemaDerivation ==
    stmt.status = "ok" =>
        LET header == tbl.rows[1]
        IN  /\ stmt.headers[1] = Metric
            /\ header # <<>> => Len(stmt.headers) = Len(header)
            /\ \A i \in 2..Len(header) :
                   i \in DOMAIN stmt.headers /\ stmt.headers[i] = header[i].text

-----------------------------------------------------------------------------
(* The claims about missing sections and persistence (Spec) *)

Warned(fn, msg) == \E i \in DOMAIN log : log[i] = LogEntry("warning", fn, msg)

\* the company page was fetched and scrape_company_data has gone past the snapshot
SnapshotPassed == web.company.net = "ok" /\ pc \notin {"start", "snapshot"}

\* the statements fragment was fetched and the loop has gone past the i-th tab
TabPassed(i) ==
    /\ ~Unreachable("financials")
    /\ \/ pc \in {"payouts", "payout_table"}
       \/ Len(requests) = 3
       \/ pc \in {"tab", "done"} /\ Len(requests) = 2 /\ tabIdx > i

PayoutsPassed == ~Unreachable("payouts") /\ Len(requests) = 3 /\ Done

\* C13: a section or table that is not in the fetched document costs a warning
\* and nothing else: past a missing snapshot panel, statement section or table,
\* or payout table, a warning is in the log, that category has no artifact, and
\* the run has not raised there.
C13_MissingSectionLogged ==
    /\ (SnapshotPassed /\ ~web.company.doc.div) =>
          /\ Warned("scrape_company_snapshot", "Company snapshot table not found")
          /\ ~Written("company_snapshot.csv")
    /\ \A i \in DOMAIN Tabs :
          (TabPassed(i) /\ TabStatus(Tabs[i]) \in {"notfound", "notable"}) =>
              /\ Warned("scrape_financial_data", Tabs[i])
              /\ ~Written(TabFile(Tabs[i]))
    /\ (PayoutsPassed /\ ~web.payouts.doc.table) =>
          /\ Warned("scrape_payout_data", "Payout table not found")
          /\ ~Written("payouts.csv")
          /\ outcome = "returned"

\* C14: at every point of a run the output directory holds exactly the artifacts
\* of the categories completed so far, each with its extracted dataset: the
\* snapshot once the run is past it, the i-th statement once the loop is past the
\* i-th tab, the payouts once they are extracted; so no request is issued and no
\* category extracted with an earlier artifact still unwritten.
C14_ImmediatePersistence ==
    /\ Written("company_snapshot.csv") <=>
          SnapshotPassed /\ scrape_company_snapshot(web.company.doc).status = "ok"
    /\ Written("company_snapshot.csv") =>
          files["company_snapshot.csv"] = scrape_company_snapshot(web.company.doc)
    /\ \A i \in DOMAIN Tabs :
          /\ Written(TabFile(Tabs[i])) <=> TabPassed(i) /\ TabWellFormed(Tabs[i])
          /\ Written(TabFile(Tabs[i])) =>
                files[TabFile(Tabs[i])] = ExtractStatement(web.financials.doc[Tabs[i]])
    /\ Written("payouts.csv") <=> PayoutsPassed /\ PayWellFormed
    /\ Written("payouts.csv") => files["payouts.csv"] = ExtractPayouts(web.payouts.doc)
    /\ \A f \in FileNames : Written(f) => Written("company_snapshot.csv")

\* C14 witness: a run stopped by the failure of a later statement category, with
\* the artifacts of the categories before it on disk and nothing after
C14_Witness ==
    /\ Done
    /\ outcome = "raised"
    /\ tabIdx = 3
    /\ Written("company_snapshot.csv")
    /\ Written("income_statement.csv")
    /\ Written("balance_sheet.csv")
    /\ ~Written("cash_flow.csv")
    /\ ~Written("payouts.csv")

-----------------------------------------------------------------------------
(* The claims about the field map (SpecSnap) *)

Labels == {fields[n][1] : n \in DOMAIN fields}

KeyOf(label) == fields[CHOOSE n \in DOMAIN fields : fields[n][1] = label][2]

\* the first <strong> in document order whose title holds the label, 0 if none
FirstWithTitle(label) ==
    LET strongs == company_soup.strongs
    IN  IF \E i \in DOMAIN strongs : TitleIn(label, strongs[i].title)
        THEN CHOOSE i \in DOMAIN strongs :
                 /\ TitleIn(label, strongs[i].title)
                 /\ \A j \in 1..(i - 1) : ~TitleIn(label, strongs[j].title)
        ELSE 0

Found(label) == company_soup.div /\ FirstWithTitle(label) # 0

ElementOf(label) == company_soup.strongs[FirstWithTitle(label)]

\* the label's element is found and its <br> has no text node right after it
NoTextSibling(label) ==
    Found(label) /\ ElementOf(label).br /\ ElementOf(label).sib # "text"

HasKey(frame, key) == \E i \in DOMAIN frame.headers : frame.headers[i] = key

ValueAt(frame, key) ==
    frame.rows[1][CHOOSE i \in DOMAIN frame.headers : frame.headers[i] = key]

\* C15: when a label's element is found but no text follows its line break,
\* the extraction does not raise, that key holds the absent marker, and every
\* other label with a text after its line break is extracted.
C15_AbsentWithoutSibling ==
    (snapshot_data # NotRun /\ \E label \in Labels : NoTextSibling(label)) =>
        /\ snapshot_data.status = "ok"
        /\ \A label \in Labels :
              /\ NoTextSibling(label) =>
                    /\ HasKey(snapshot_data, KeyOf(label))
                    /\ ValueAt(snapshot_data, KeyOf(label)) = NoneVal
              /\ (Found(label) /\ ElementOf(label).br /\ ElementOf(label).sib = "text") =>
                    HasKey(snapshot_data, KeyOf(label))

\* C16: a value stored under a label's key is the one of the first element in
\* document order whose title holds the label, whatever comes later.
C16_FirstMatchWins ==
    snapshot_data.status = "ok" =>
        \A label \in Labels :
            HasKey(snapshot_data, KeyOf(label)) =>
                /\ Found(label)
                /\ ValueAt(snapshot_data, KeyOf(label))
                       = clean_value(Strip(ElementOf(label).text))

\* C16 witness: '52 Week High' comes before 'High' with another value, and the
\* key High holds the value of '52 Week High'
C16_Witness ==
    /\ snapshot_data.status = "ok"
    /\ Len(company_soup.strongs) = 2
    /\ company_soup.strongs[1].title = "52 Week High"
    /\ company_soup.strongs[2].title = "High"
    /\ company_soup.strongs[1].text # company_soup.strongs[2].text
    /\ HasKey(snapshot_data, "High")
    /\ ValueAt(snapshot_data, "High") = clean_value(company_soup.strongs[1].text)
    /\ ValueAt(snapshot_data, "High") # clean_value(company_soup.strongs[2].text)

Keys == {fields[n][2] : n \in DOMAIN fields}

\* C17: the record scrape_company_snapshot returns holds a label's key exactly
\* when the label matched an element of the panel, and holds no key that is not
\* in the fields mapping.
C17_KeySet ==
    snapshot_data.status = "ok" =>
        /\ \A label \in Labels : HasKey(snapshot_data, KeyOf(label)) <=> Found(label)
        /\ \A i \in DOMAIN snapshot_data.headers : snapshot_data.headers[i] \in Keys

-----------------------------------------------------------------------------
(* The claims about repeated runs (SpecRerun) *)

\* C18: a second run for the same symbol against the same pages leaves every
\* output file with the content the first run left: for scrape_company_data
\* the files of financial_data/, for scrape_stock_data its stock_data file.
C18_RunIdempotent ==
    /\ (Done /\ prior.n = 2) => files = prior.files
    /\ (stock.pc = "done" /\ stock.n = 2) => stock.file = stock.prior

-----------------------------------------------------------------------------
(* The claims about payout rows (SpecTable) *)

\* the cell of the k-th source row under the column 'Payout %' is a lone '-'
DashPayout(k, i) ==
    /\ k \in DOMAIN ptbl.body
    /\ i \in DOMAIN ptbl.body[k]
    /\ i \in DOMAIN ptbl.head
    /\ Strip(ptbl.head[i]) = PayoutPct
    /\ Strip(ptbl.body[k][i]) = <<"-">>

\* C19: a payout row whose 'Payout %' cell is '-' is in the extracted dataset,
\* at its place, with the absent marker in that field.
C19_DashPayoutKept ==
    pres.status = "ok" =>
        \A k \in DOMAIN ptbl.body : \A i \in DOMAIN ptbl.head :
            DashPayout(k, i) =>
                /\ Len(pres.rows) = Len(ptbl.body)
                /\ pres.rows[k][i] = NoneVal

-----------------------------------------------------------------------------
(* The claims about the order of the requests (Spec) *)

RequestOrder ==
    <<Request("company", symbol), Request("financials", symbol),
      Request("payouts", symbol)>>

\* C20: the requests of a run are issued one after the other in the order
\* company page, statements, payouts: the statements are requested only with
\* the snapshot written, the payouts only with every statement tab processed
\* and its artifact written.
C20_SequentialRequests ==
    /\ Len(requests) <= Len(RequestOrder)
    /\ requests = SubSeq(RequestOrder, 1, Len(requests))
    /\ Len(requests) >= 2 =>
          /\ web.company.net = "ok"
          /\ Written("company_snapshot.csv")
    /\ Len(requests) = 3 =>
          /\ ~Unreachable("financials")
          /\ \A t \in TabSet :
                /\ TabStatus(t) # "raise"
                /\ TabWellFormed(t) => Written(TabFile(t))

\* C20 witness: a finished run that issued the three requests and wrote a
\* statement file and the payouts
C20_Witness ==
    /\ Done
    /\ Len(requests) = 3
    /\ Written("income_statement.csv")
    /\ Written("payouts.csv")

-----------------------------------------------------------------------------
(* The claims about the dashboard (SpecDash) *)

\* the button's handler has run to its end at least once
Downloaded == session.clicks > 0 /\ ~session.handling

\* C21: after a download the flag data_downloaded is set only if the scrape
\* produced data: the company page was fetched and some artifact is in the
\* folder; after a failed company-page fetch the flag is False.
C21_DownloadFlag ==
    Downloaded =>
        /\ session.data_downloaded =>
              /\ web.company.net = "ok"
              /\ \E f \in FileNames : Written(f)
        /\ web.company.net # "ok" => ~session.data_downloaded

\* the latest call of scrape_company_data has completed the category of file f
\* and f holds what that call extracted from the pages it was given
WrittenByLatest(f) ==
    CASE f = "company_snapshot.csv" ->
           /\ SnapshotPassed
           /\ files[f] = scrape_company_snapshot(web.company.doc)
      [] f = "payouts.csv" ->
           /\ PayoutsPassed
           /\ files[f] = ExtractPayouts(web.payouts.doc)
      [] OTHER ->
           \E i \in DOMAIN Tabs :
               /\ TabFile(Tabs[i]) = f
               /\ TabPassed(i)
               /\ files[f] = ExtractStatement(web.financials.doc[Tabs[i]])

\* C22: whatever downloads came before, every file in financial_data was written
\* by the most recent download: none is left from an earlier one, also when the
\* latest run omits that category or stops part-way.
C22_NoStaleArtifacts ==
    session.clicks > 0 => \A f \in FileNames : Written(f) => WrittenByLatest(f)

\* C22 witness: the second download is over, it stopped part-way, and files the
\* first download had left (payouts.csv among them) are gone
C22_Witness ==
    /\ Downloaded
    /\ session.clicks = 2
    /\ "payouts.csv" \in session.found
    /\ "cash_flow.csv" \in session.found
    /\ outcome = "raised"
    /\ Written("income_statement.csv")
    /\ ~Written("cash_flow.csv")
    /\ ~Written("payouts.csv")

-----------------------------------------------------------------------------
(* The claims about the analyzer run (SpecAnalyzer) *)

\* the calls of generate_report that returned a report
Returned == {i \in 1..Len(analyzer.reports) : ~analyzer.reports[i].raised}

\* what a returned report shows under 'recommendations': the analyzer's own
\* list, as it is now
RecommendationsOf(i) == analyzer.recommendations

\* C23: however often generate_report is called on one analyzer, the report
\* it returns has exactly three recommendations, and every report has the
\* same total_score and investment_rating.
C23_ReportRepeatable ==
    \A i \in Returned :
        /\ Len(RecommendationsOf(i)) = 3
        /\ \A j \in Returned :
              /\ analyzer.reports[i].total_score = analyzer.reports[j].total_score
              /\ analyzer.reports[i].investment_rating
                    = analyzer.reports[j].investment_rating

\* probe: the scores and the rating alone are the same on every call
C23_ScoresRepeatable ==
    \A i, j \in Returned :
        /\ analyzer.reports[i].total_score = analyzer.reports[j].total_score
        /\ analyzer.reports[i].investment_rating = analyzer.reports[j].investment_rating

\* probe: the n-th returned report comes with 3 * n recommendations
C23_ListGrows ==
    Returned # {} /\ analyzer.pc = "ready"
        => Len(analyzer.recommendations) = 3 * Len(analyzer.reports)

\* the rank of a rating, worst first
RatingRank(rating) ==
    CASE rating = "Sell" -> 0
      [] rating = "Hold" -> 1
      [] rating = "Buy" -> 2
      [] rating = "Strong Buy" -> 3

\* C24: a returned report's total_score is the sum of the dividend (0..5),
\* valuation (0..4) and health (0..5) sub-scores and lies in 0..14; its
\* investment_rating is "Strong Buy" iff the total is at least 10, "Buy" iff
\* it is 8 or 9, "Hold" iff it is 6 or 7 and "Sell" iff it is at most 5; and
\* a higher total never gets a worse rating.
C24_RatingThresholds ==
    \A i \in Returned :
        LET report == analyzer.reports[i]
            scores == analyzer.analysis_results
            total  == report.total_score
            rating == report.investment_rating
        IN  /\ scores.dividend \in 0..5
            /\ scores.valuation \in 0..4
            /\ scores.financial_health \in 0..5
            /\ total = scores.dividend + scores.valuation + scores.financial_health
            /\ total \in 0..14
            /\ rating = "Strong Buy" <=> total >= 10
            /\ rating = "Buy" <=> total \in {8, 9}
            /\ rating = "Hold" <=> total \in {6, 7}
            /\ rating = "Sell" <=> total <= 5
            /\ \A lower \in 0..total :
                  RatingRank(investment_rating(lower)) <= RatingRank(rating)
            /\ \A higher \in total..14 :
                  RatingRank(rating) <= RatingRank(investment_rating(higher))

\* C24: a report with a total of exactly 10, the lowest "Strong Buy", was
\* returned
C24_Witness ==
    \E i \in Returned :
        /\ analyzer.reports[i].total_score = 10
        /\ analyzer.reports[i].investment_rating = "Strong Buy"

=============================================================================
